---------------------------- MODULE Spec2Model ----------------------------
(***************************************************************************)
(* Model of "Object Detection Module/image_utils.h": the preprocessing     *)
(* pipeline preprocessImageForML (JPEG -> RGB888 -> grayscale -> bilinear  *)
(* resize -> int8 quantisation) and its primitive bilinear_interpolate.    *)
(*                                                                         *)
(* C float is IEEE-754 binary32, evaluated operation by operation with     *)
(* round-to-nearest-even.  A non-negative float is the record [m, e] of    *)
(* value m * 2^e, with m = 0 or 2^23 <= m < 2^24.  Every quantity the code *)
(* computes in float is non-negative.                                      *)
(***************************************************************************)
EXTENDS Integers, Sequences, FiniteSets, TLC

(***************************************************************************)
(* Bounds of the explored inputs.                                          *)
(***************************************************************************)
MaxWidth == 3
MaxHeight == 3
MaxTarget == 6

(***************************************************************************)
(* binary32 arithmetic on non-negative values.                             *)
(***************************************************************************)
\* the powers 2^0 .. 2^30
Pow2Table ==
   << 1, 2, 4, 8, 16, 32, 64, 128, 256, 512, 1024, 2048, 4096, 8192,
      16384, 32768, 65536, 131072, 262144, 524288, 1048576, 2097152,
      4194304, 8388608, 16777216, 33554432, 67108864, 134217728,
      268435456, 536870912, 1073741824 >>

Pow2(n) == Pow2Table[n + 1]

FZero == [m |-> 0, e |-> 0]

RECURSIVE FNorm(_, _)
\* exact value m * 2^e with 0 <= m < 2^24, brought to normal form
FNorm(m, e) ==
  IF m = 0 THEN FZero
  ELSE IF m < Pow2(23) THEN FNorm(2 * m, e - 1)
  ELSE [m |-> m, e |-> e]

\* q * 2^e plus a discarded remainder rem out of 2*half, to nearest, ties to even
FRoundQ(q, rem, half, e) ==
  LET up == rem > half \/ (rem = half /\ q % 2 = 1)
      q1 == IF up THEN q + 1 ELSE q
  IN  IF q1 = Pow2(24) THEN [m |-> Pow2(23), e |-> e + 1] ELSE [m |-> q1, e |-> e]

RECURSIVE FShift(_)
\* the number of low bits to discard so that 24 significant bits remain
FShift(n) == IF n < Pow2(24) THEN 0 ELSE 1 + FShift(n \div 2)

\* the integer n * 2^e (0 <= n < 2^30) rounded to 24 significant bits
FRound(n, e) ==
  LET s == FShift(n)
  IN  IF s = 0 THEN FNorm(n, e)
      ELSE FRoundQ(n \div Pow2(s), n % Pow2(s), Pow2(s - 1), e + s)

\* (float) of a non-negative int below 2^24
FromInt(n) == FNorm(n, 0)

\* (int) of a float: truncation toward zero
FTrunc(a) ==
  IF a.m = 0 THEN 0
  ELSE IF a.e >= 0 THEN a.m * Pow2(a.e)
  ELSE IF 0 - a.e >= 24 THEN 0
  ELSE a.m \div Pow2(0 - a.e)

\* a * b: the 48-bit product of the significands, kept as H * 2^24 + L
FMul(a, b) ==
  IF a.m = 0 \/ b.m = 0 THEN FZero
  ELSE
    LET ah == a.m \div 4096
        al == a.m % 4096
        bh == b.m \div 4096
        bl == b.m % 4096
        mid == ah * bl + al * bh
        L0 == (mid % 4096) * 4096 + al * bl
        H == ah * bh + (mid \div 4096) + (L0 \div Pow2(24))
        L == L0 % Pow2(24)
    IN  IF H >= Pow2(23)
        THEN FRoundQ(H, L, Pow2(23), a.e + b.e + 24)
        ELSE FRoundQ(2 * H + (L \div Pow2(23)), L % Pow2(23), Pow2(22), a.e + b.e + 23)

\* a + b, with three guard bits and a sticky bit
FAdd(a, b) ==
  IF a.m = 0 THEN b
  ELSE IF b.m = 0 THEN a
  ELSE
    LET hi == IF a.e >= b.e THEN a ELSE b
        lo == IF a.e >= b.e THEN b ELSE a
        d == hi.e - lo.e
    IN  IF d > 25 THEN hi
        ELSE
          LET B8 == lo.m * 8
              Bs == B8 \div Pow2(d)
              st == B8 % Pow2(d) # 0
              S == hi.m * 8 + Bs
              S1 == IF st /\ S % 2 = 0 THEN S + 1 ELSE S
          IN  FRound(S1, hi.e - 3)

\* a - b for a >= b
FSub(a, b) ==
  IF b.m = 0 THEN a
  ELSE
    LET d == a.e - b.e
    IN  IF d > 26 THEN a
        ELSE
          LET B8 == b.m * 8
              Bs == B8 \div Pow2(d)
              st == B8 % Pow2(d) # 0
              S == IF st THEN a.m * 8 - Bs - 1 ELSE a.m * 8 - Bs
              S1 == IF st /\ S % 2 = 0 THEN S + 1 ELSE S
          IN  FRound(S1, a.e - 3)

RECURSIVE FDivBits(_, _, _, _)
\* long division: quotient bits until 26 are known; the remainder is the sticky bit
FDivBits(q, r, b, e) ==
  IF q >= Pow2(25)
  THEN FRound(IF r # 0 /\ q % 2 = 0 THEN q + 1 ELSE q, e)
  ELSE FDivBits(2 * q + (IF 2 * r >= b THEN 1 ELSE 0), (2 * r) % b, b, e - 1)

\* (float)a / b for ints a >= 0, b > 0
FDiv(a, b) == IF a = 0 THEN FZero ELSE FDivBits(a \div b, a % b, b, 0)

FOne == FromInt(1)

(***************************************************************************)
(* Integer conversions.                                                    *)
(***************************************************************************)
\* (uint8_t) of an int
ToUint8(n) == n % 256

\* (int8_t) of an int: two's complement wrap
ToInt8(n) == ((n + 128) % 256) - 128

\* img[idx]; a read outside the buffer yields whatever byte lies there
ReadByte(img, idx, junk) == IF idx \in DOMAIN img THEN img[idx] ELSE junk

(***************************************************************************)
(* The luma step of the grayscale loop.                                    *)
(***************************************************************************)
\* the float literals 0.299f, 0.587f, 0.114f
LumaR == [m |-> 10032775, e |-> -25]
LumaG == [m |-> 9848226, e |-> -24]
LumaB == [m |-> 15300821, e |-> -27]

\* variant: 0.144f mistyped for the blue weight 0.114f
LumaBlueTypo(r, g, b) ==
  ToUint8(FTrunc(FAdd(FAdd(FMul(LumaR, FromInt(r)), FMul(LumaG, FromInt(g))),
                      FMul([m |-> 9663676, e |-> -26], FromInt(b)))))

\* (uint8_t)(0.299f * r + 0.587f * g + 0.114f * b)
Luma(r, g, b) ==
  ToUint8(FTrunc(FAdd(FAdd(FMul(LumaR, FromInt(r)), FMul(LumaG, FromInt(g))),
                      FMul(LumaB, FromInt(b)))))

(***************************************************************************)
(* bilinear_interpolate(img, width, height, x, y).  junk[k] is the byte    *)
(* the k-th read returns if its index falls outside img.  The result       *)
(* records the neighbour coordinates, the offsets, the indices read and    *)
(* the returned sample.                                                    *)
(***************************************************************************)
\* variant: the boundary check written with > instead of >=
ClampHiOffByOne(c2, size) == IF c2 > size THEN size - 1 ELSE c2

\* if(x2 >= width) x2 = width - 1;
ClampHi(c2, size) == IF c2 >= size THEN size - 1 ELSE c2

\* variant: the horizontal weights dx and 1 - dx exchanged
BlendSwapped(p1, p2, p3, p4, dx, dy) ==
  LET ndx == FSub(FOne, dx)
      ndy == FSub(FOne, dy)
  IN  FAdd(FAdd(FAdd(FMul(FMul(FromInt(p1), dx), ndy),
                     FMul(FMul(FromInt(p2), ndx), ndy)),
                FMul(FMul(FromInt(p3), dx), dy)),
           FMul(FMul(FromInt(p4), ndx), dy))

\* lines 31-34: the weighted sum of the four neighbours, evaluated left to right
Blend(p1, p2, p3, p4, dx, dy) ==
  LET ndx == FSub(FOne, dx)
      ndy == FSub(FOne, dy)
  IN  FAdd(FAdd(FAdd(FMul(FMul(FromInt(p1), ndx), ndy),
                     FMul(FMul(FromInt(p2), dx), ndy)),
                FMul(FMul(FromInt(p3), ndx), dy)),
           FMul(FMul(FromInt(p4), dx), dy))

bilinear_interpolate(img, width, height, x, y, junk) ==
  LET x1 == FTrunc(x)
      y1 == FTrunc(y)
      x2 == ClampHi(x1 + 1, width)
      y2 == ClampHi(y1 + 1, height)
      dx == FSub(x, FromInt(x1))
      dy == FSub(y, FromInt(y1))
      i1 == y1 * width + x1
      i2 == y1 * width + x2
      i3 == y2 * width + x1
      i4 == y2 * width + x2
      p1 == ReadByte(img, i1, junk[1])
      p2 == ReadByte(img, i2, junk[2])
      p3 == ReadByte(img, i3, junk[3])
      p4 == ReadByte(img, i4, junk[4])
      val == Blend(p1, p2, p3, p4, dx, dy)
  IN  [x1 |-> x1, y1 |-> y1, x2 |-> x2, y2 |-> y2, dx |-> dx, dy |-> dy,
       reads |-> <<i1, i2, i3, i4>>, val |-> val, pixel |-> ToUint8(FTrunc(val))]

\* variant: the cast applied to pixel before the subtraction
QuantizeCastFirst(pixel) == ToInt8(pixel) - 128

\* output_buffer[...] = (int8_t)(pixel - 128)
Quantize(pixel) == ToInt8(pixel - 128)

\* float x_ratio = (float)src_width / target_size;  (y_ratio likewise)
Ratio(src_size, target) == FDiv(src_size, target)

\* variant: the coordinate taken one output pixel too far
SrcCoordOffByOne(k, ratio) == FMul(FromInt(k + 1), ratio)

\* float src_x = x * x_ratio;
SrcCoord(k, ratio) == FMul(FromInt(k), ratio)

\* variant: a row stride of target_size + 1
OutIndexStride(cx, cy, target) == cy * (target + 1) + cx

\* variant: row and column exchanged
OutIndexTransposed(cx, cy, target) == cx * target + cy

\* line 99: the tensor index y * target_size + x
OutIndex(cx, cy, target) == cy * target + cx

(***************************************************************************)
(* State of one call preprocessImageForML(fb, output_buffer, target_size). *)
(***************************************************************************)
VARIABLES
  fb,             \* the frame descriptor: null, buf_null, width, height
  output_null,    \* output_buffer == NULL
  target_size,
  pc,             \* position in the function
  ret,            \* "none" until the function returns, then "true" or "false"
  rgb888_state,   \* "none", "alloc" or "freed"
  rgb888_buf,
  gray_state,     \* "none", "alloc" or "freed"
  gray_buf,
  output_buffer,  \* the caller's tensor
  out0,           \* its content when the call started
  written,        \* indices of output_buffer stored to by the call
  i, x, y,        \* loop counters
  mallocs,        \* malloc calls made
  rgb_frees, gray_frees,
  uaf,            \* an intermediate buffer was accessed while not allocated
  stray,          \* the bytes that reads outside gray_buf find
  events,         \* order of the buffer operations, repeats collapsed
  call            \* the last bilinear_interpolate call: arguments and result

vars == <<fb, output_null, target_size, pc, ret, rgb888_state, rgb888_buf,
          gray_state, gray_buf, output_buffer, out0, written, i, x, y,
          mallocs, rgb_frees, gray_frees, uaf, stray, events, call>>

Log(ev) == IF events # <<>> /\ events[Len(events)] = ev THEN events ELSE Append(events, ev)

\* the empty buffer: what a pointer that is NULL or freed gives access to
NoBuf == [k \in {} |-> 0]

NoCall ==
  [active |-> FALSE, ax |-> FZero, ay |-> FZero, idx |-> -1,
   r |-> bilinear_interpolate(NoBuf, 0, 0, FZero, FZero, <<0, 0, 0, 0>>)]

\* bytes that may lie in the memory around the grayscale buffer
StrayBytes == {<<0, 0, 0, 0>>, <<255, 0, 37, 128>>}

\* pixels the decoder may produce
Palette == << <<0, 0, 0>>, <<255, 255, 255>>, <<37, 37, 37>>, <<255, 0, 0>>,
              <<12, 200, 77>>, <<128, 128, 128>> >>

\* an RGB888 image of n pixels, interleaved R, G, B
DecodedImage(seed, n) ==
  [k \in 0..(3 * n - 1) |-> Palette[((seed + (k \div 3)) % Len(Palette)) + 1][(k % 3) + 1]]

\* what the caller's tensor holds before the call
PreFill == <<0, -118>>

Init ==
  /\ fb \in [null : BOOLEAN, buf_null : BOOLEAN, width : 0..MaxWidth, height : 0..MaxHeight]
  /\ output_null \in BOOLEAN
  /\ target_size \in 0..MaxTarget
  /\ pc = "entry"
  /\ ret = "none"
  /\ rgb888_state = "none"
  /\ rgb888_buf = NoBuf
  /\ gray_state = "none"
  /\ gray_buf = NoBuf
  /\ output_buffer = [k \in 0..(target_size * target_size) |-> PreFill[(k % 2) + 1]]
  /\ out0 = output_buffer
  /\ written = {}
  /\ i = 0 /\ x = 0 /\ y = 0
  /\ mallocs = 0 /\ rgb_frees = 0 /\ gray_frees = 0
  /\ uaf = FALSE
  /\ stray = <<0, 0, 0, 0>>
  /\ events = <<>>
  /\ call = NoCall

\* line 41: if(!fb || !output_buffer) return false;
Entry ==
  /\ pc = "entry"
  /\ IF fb.null \/ output_null
     THEN pc' = "done" /\ ret' = "false"
     ELSE pc' = "alloc_rgb" /\ ret' = ret
  /\ UNCHANGED <<fb, output_null, target_size, rgb888_state, rgb888_buf, gray_state,
                 gray_buf, output_buffer, out0, written, i, x, y, mallocs,
                 rgb_frees, gray_frees, uaf, events, call,
                 stray>>

\* lines 46-51: malloc of the RGB888 buffer; malloc may return NULL
AllocRGB ==
  /\ pc = "alloc_rgb"
  /\ mallocs' = mallocs + 1
  /\ \/ /\ rgb888_state' = "alloc"
        /\ rgb888_buf' = [k \in 0..(fb.width * fb.height * 3 - 1) |-> 0]
        /\ events' = Log("alloc_rgb")
        /\ pc' = "decode" /\ ret' = ret
     \/ /\ pc' = "done" /\ ret' = "false"
        /\ UNCHANGED <<rgb888_state, rgb888_buf, events>>
  /\ UNCHANGED <<fb, output_null, target_size, gray_state, gray_buf, output_buffer,
                 out0, written, i, x, y, rgb_frees, gray_frees, uaf, call,
                 stray>>

\* lines 54-59: fmt2rgb888 fills the RGB888 buffer or reports failure
Decode ==
  /\ pc = "decode"
  /\ uaf' = (uaf \/ rgb888_state # "alloc")
  /\ events' = Log("decode")
  /\ \/ /\ \E seed \in 0..(Len(Palette) - 1) :
             rgb888_buf' = DecodedImage(seed, fb.width * fb.height)
        /\ pc' = "alloc_gray" /\ ret' = ret
     \/ /\ pc' = "done" /\ ret' = "false"
        /\ UNCHANGED rgb888_buf
  /\ UNCHANGED <<fb, output_null, target_size, rgb888_state, gray_state, gray_buf,
                 output_buffer, out0, written, i, x, y, mallocs, rgb_frees,
                 gray_frees, call,
                 stray>>

\* variant: free(rgb888_buf) issued on both branches, before the grayscale loop
AllocGrayFreesEarly ==
  /\ pc = "alloc_gray"
  /\ mallocs' = mallocs + 1
  /\ \/ /\ gray_state' = "alloc"
        /\ gray_buf' = [k \in 0..(fb.width * fb.height - 1) |-> 0]
        /\ events' = Append(Log("alloc_gray"), "free_rgb")
        /\ stray' \in StrayBytes
        /\ pc' = "gray_loop" /\ i' = 0 /\ ret' = ret
        /\ rgb888_state' = "freed"
        /\ rgb_frees' = rgb_frees + 1
        /\ UNCHANGED rgb888_buf
     \/ /\ rgb888_state' = "freed"
        /\ rgb888_buf' = NoBuf
        /\ rgb_frees' = rgb_frees + 1
        /\ events' = Log("free_rgb")
        /\ pc' = "done" /\ ret' = "false"
        /\ UNCHANGED <<gray_state, gray_buf, i, stray>>
  /\ UNCHANGED <<fb, output_null, target_size, output_buffer, out0,
                 written, x, y, gray_frees, uaf, call>>

\* lines 61-73: malloc of the grayscale buffer; on NULL the RGB888 buffer is freed
AllocGray ==
  /\ pc = "alloc_gray"
  /\ mallocs' = mallocs + 1
  /\ \/ /\ gray_state' = "alloc"
        /\ gray_buf' = [k \in 0..(fb.width * fb.height - 1) |-> 0]
        /\ events' = Log("alloc_gray")
        /\ stray' \in StrayBytes
        /\ pc' = "gray_loop" /\ i' = 0 /\ ret' = ret
        /\ UNCHANGED <<rgb888_state, rgb888_buf, rgb_frees>>
     \/ /\ rgb888_state' = "freed"
        /\ rgb888_buf' = NoBuf
        /\ rgb_frees' = rgb_frees + 1
        /\ events' = Log("free_rgb")
        /\ pc' = "done" /\ ret' = "false"
        /\ UNCHANGED <<gray_state, gray_buf, i, stray>>
  /\ UNCHANGED <<fb, output_null, target_size, output_buffer, out0,
                 written, x, y, gray_frees, uaf, call>>

\* lines 77-82: one iteration of the grayscale loop
GrayStep ==
  /\ pc = "gray_loop"
  /\ i < fb.width * fb.height
  /\ gray_buf' = [gray_buf EXCEPT ![i] =
                    Luma(rgb888_buf[i * 3], rgb888_buf[i * 3 + 1], rgb888_buf[i * 3 + 2])]
  /\ i' = i + 1
  /\ uaf' = (uaf \/ rgb888_state # "alloc" \/ gray_state # "alloc")
  /\ events' = Log("read_rgb")
  /\ UNCHANGED <<fb, output_null, target_size, pc, ret, rgb888_state, rgb888_buf,
                 gray_state, output_buffer, out0, written, x, y, mallocs,
                 rgb_frees, gray_frees, call,
                 stray>>

\* line 84: free(rgb888_buf) once the grayscale loop has ended
FreeRGB ==
  /\ pc = "gray_loop"
  /\ ~(i < fb.width * fb.height)
  /\ rgb888_state' = "freed"
  /\ rgb888_buf' = NoBuf
  /\ rgb_frees' = rgb_frees + 1
  /\ events' = Log("free_rgb")
  /\ pc' = "resize" /\ x' = 0 /\ y' = 0
  /\ UNCHANGED <<fb, output_null, target_size, ret, gray_state, gray_buf,
                 output_buffer, out0, written, i, mallocs, gray_frees, uaf, call,
                 stray>>

\* lines 88-89, 93-94: the source coordinates of output pixel (cx, cy)
SrcX(cx) == SrcCoord(cx, Ratio(fb.width, target_size))
SrcY(cy) == SrcCoord(cy, Ratio(fb.height, target_size))

\* lines 91-100: one iteration of the resize loop (x inner, y outer)
ResizeStep ==
  /\ pc = "resize"
  /\ y < target_size
  /\ LET src_x == SrcX(x)
         src_y == SrcY(y)
         r == bilinear_interpolate(gray_buf, fb.width, fb.height, src_x, src_y, stray)
         idx == OutIndex(x, y, target_size)
     IN  /\ call' = [active |-> TRUE, ax |-> src_x, ay |-> src_y, idx |-> idx, r |-> r]
         /\ output_buffer' = IF idx \in DOMAIN output_buffer
                             THEN [output_buffer EXCEPT ![idx] = Quantize(r.pixel)]
                             ELSE output_buffer
         /\ written' = written \cup {idx}
  /\ IF x + 1 < target_size
     THEN x' = x + 1 /\ y' = y
     ELSE x' = 0 /\ y' = y + 1
  /\ uaf' = (uaf \/ gray_state # "alloc")
  /\ events' = Log("read_gray")
  /\ UNCHANGED <<fb, output_null, target_size, pc, ret, rgb888_state, rgb888_buf,
                 gray_state, gray_buf, out0, i, mallocs, rgb_frees, gray_frees,
                 stray>>

\* line 103: free(gray_buf) once the resize loop has ended
FreeGray ==
  /\ pc = "resize"
  /\ ~(y < target_size)
  /\ gray_state' = "freed"
  /\ gray_buf' = NoBuf
  /\ gray_frees' = gray_frees + 1
  /\ events' = Log("free_gray")
  /\ pc' = "return"
  /\ UNCHANGED <<fb, output_null, target_size, ret, rgb888_state, rgb888_buf,
                 output_buffer, out0, written, i, x, y, mallocs, rgb_frees, uaf, call,
                 stray>>

\* line 106: return true;
ReturnTrue ==
  /\ pc = "return"
  /\ pc' = "done" /\ ret' = "true"
  /\ UNCHANGED <<fb, output_null, target_size, rgb888_state, rgb888_buf, gray_state,
                 gray_buf, output_buffer, out0, written, i, x, y, mallocs,
                 rgb_frees, gray_frees, uaf, events, call,
                 stray>>

Next ==
  \/ Entry
  \/ AllocRGB
  \/ Decode
  \/ AllocGray
  \/ GrayStep
  \/ FreeRGB
  \/ ResizeStep
  \/ FreeGray
  \/ ReturnTrue

Spec == Init /\ [][Next]_vars

(***************************************************************************)
(* A direct call bilinear_interpolate(img, width, height, x, y) on an      *)
(* image img = gray_buf of fb.width x fb.height samples; the arguments x   *)
(* and y are call.ax and call.ay.                                          *)
(***************************************************************************)
\* the grayscale image the pipeline derives from DecodedImage(seed, n)
GrayImage(seed, n) ==
  [k \in 0..(n - 1) |->
     Luma(DecodedImage(seed, n)[3 * k], DecodedImage(seed, n)[3 * k + 1],
          DecodedImage(seed, n)[3 * k + 2])]

\* coordinates c and c + 0.5 for the columns or rows c of the image
GridCoords(size) ==
  {FromInt(c) : c \in 0..(size - 1)} \cup {FNorm(2 * c + 1, -1) : c \in 0..(size - 1)}

\* the state in which the code between two lines has run, given what it left behind
MidCall(f, target, at, rgbst, rgb, grayst, gray, cnt, log, nmalloc, nfree, args) ==
  /\ fb = f
  /\ output_null = FALSE
  /\ target_size = target
  /\ pc = at
  /\ ret = "none"
  /\ rgb888_state = rgbst
  /\ rgb888_buf = rgb
  /\ gray_state = grayst
  /\ gray_buf = gray
  /\ output_buffer = [k \in 0..(target * target) |-> PreFill[(k % 2) + 1]]
  /\ out0 = output_buffer
  /\ written = {}
  /\ i = cnt /\ x = 0 /\ y = 0
  /\ mallocs = nmalloc /\ rgb_frees = nfree /\ gray_frees = 0
  /\ uaf = FALSE
  /\ stray \in StrayBytes
  /\ events = log
  /\ call = args

InitInterp ==
  \E w \in 1..MaxWidth, h \in 1..MaxHeight, seed \in 0..(Len(Palette) - 1) :
    \E ax \in GridCoords(w), ay \in GridCoords(h) :
      MidCall([null |-> FALSE, buf_null |-> FALSE, width |-> w, height |-> h], 0,
              "interp", "none", NoBuf, "alloc", GrayImage(seed, w * h), 0, <<>>, 0, 0,
              [NoCall EXCEPT !.ax = ax, !.ay = ay])

\* lines 13-37: the call and its return value
InterpCall ==
  /\ pc = "interp"
  /\ call' = [call EXCEPT !.active = TRUE,
                          !.r = bilinear_interpolate(gray_buf, fb.width, fb.height,
                                                     call.ax, call.ay, stray)]
  /\ pc' = "interp_done"
  /\ UNCHANGED <<fb, output_null, target_size, ret, rgb888_state, rgb888_buf,
                 gray_state, gray_buf, output_buffer, out0, written, i, x, y,
                 mallocs, rgb_frees, gray_frees, uaf, stray, events>>

NextInterp == InterpCall

SpecInterp == InitInterp /\ [][NextInterp]_vars

(***************************************************************************)
(* The grayscale loop (lines 77-84) on a one-pixel frame, for every gray   *)
(* level and every palette colour the decoder may have produced.           *)
(***************************************************************************)
OnePixel == [null |-> FALSE, buf_null |-> FALSE, width |-> 1, height |-> 1]

InitLuma ==
  \E t \in {<<v, v, v>> : v \in 0..255} \cup {Palette[k] : k \in 1..Len(Palette)} :
    MidCall(OnePixel, 1, "gray_loop", "alloc", [k \in 0..2 |-> t[k + 1]], "alloc",
            [k \in 0..0 |-> 0], 0, <<"alloc_rgb", "decode", "alloc_gray">>, 2, 0, NoCall)

NextLuma == GrayStep \/ FreeRGB

SpecLuma == InitLuma /\ [][NextLuma]_vars

(***************************************************************************)
(* The resize loop (lines 88-106) on a one-pixel grayscale buffer, for     *)
(* every sample value.                                                     *)
(***************************************************************************)
BeforeResize == <<"alloc_rgb", "decode", "alloc_gray", "read_rgb", "free_rgb">>

InitQuant ==
  \E p \in 0..255 :
    MidCall(OnePixel, 1, "resize", "freed", NoBuf, "alloc", [k \in 0..0 |-> p], 1,
            BeforeResize, 2, 1, NoCall)

NextResize == ResizeStep \/ FreeGray \/ ReturnTrue

SpecQuant == InitQuant /\ [][NextResize]_vars

(***************************************************************************)
(* The resize loop on a 160x120 grayscale buffer whose top-left 2x2 block  *)
(* is [10, 20; 30, 40], with target_size = 2.                              *)
(***************************************************************************)
ScenarioFrame == [null |-> FALSE, buf_null |-> FALSE, width |-> 160, height |-> 120]

ScenarioBlock == <<10, 20, 30, 40>>

\* number of backgrounds tried around the block
ScenarioCount == 20

\* pixel k of the b-th scenario image
ScenarioPixel(b, k) ==
  IF k \in {0, 1} THEN ScenarioBlock[k + 1]
  ELSE IF k \in {160, 161} THEN ScenarioBlock[k - 157]
  ELSE IF b = 0 THEN ScenarioBlock[((k \div 80) % 2) + 2 * ((k \div 9600) % 2) + 1]
  ELSE (b * 13 + (k % 160) + 3 * (k \div 160)) % 256

InitScenario ==
  \E b \in 0..(ScenarioCount - 1) :
    MidCall(ScenarioFrame, 2, "resize", "freed", NoBuf, "alloc",
            [k \in 0..(160 * 120 - 1) |-> ScenarioPixel(b, k)], 160 * 120,
            BeforeResize, 2, 1, NoCall)

SpecScenario == InitScenario /\ [][NextResize]_vars

TypeOK ==
  /\ pc \in {"entry", "alloc_rgb", "decode", "alloc_gray", "gray_loop", "resize",
             "return", "done", "interp", "interp_done"}
  /\ ret \in {"none", "true", "false"}
  /\ rgb888_state \in {"none", "alloc", "freed"}
  /\ gray_state \in {"none", "alloc", "freed"}

(***************************************************************************)
(* Properties.                                                             *)
(***************************************************************************)
Returned == pc = "done" /\ ret # "none"

\* C1: on every failure return, no intermediate buffer (rgb888_buf, gray_buf)
\* is still allocated.
C1_NoLeakOnFailure ==
  ret = "false" => (rgb888_state # "alloc" /\ gray_state # "alloc")

\* C2: a call with a null frame, a null frame buffer or a zero width or height
\* makes no allocation, writes no tensor cell and returns false.
C2_InvalidInputRejected ==
  (fb.null \/ fb.buf_null \/ fb.width = 0 \/ fb.height = 0)
    => (mallocs = 0 /\ written = {} /\ (Returned => ret = "false"))

\* C3: the tensor is written all-or-nothing: after a false return every cell
\* holds its pre-call value; after a true return with target_size > 0 exactly
\* the cells 0 .. target_size^2 - 1 have been written.
C3_AllOrNothing ==
  /\ ret = "false" => (output_buffer = out0 /\ written = {})
  /\ (ret = "true" /\ target_size > 0)
       => written = 0..(target_size * target_size - 1)

C3_Witness ==
  /\ ret = "true" /\ target_size >= 2
  /\ written = 0..(target_size * target_size - 1)
  /\ \E k \in written : output_buffer[k] # out0[k]

\* C4: when width = height = target_size, every resize call has dx = dy = 0
\* and every output sample written so far equals the grayscale sample of the
\* same index minus 128.
C4_IdentityResize ==
  (fb.width = target_size /\ fb.height = target_size /\ gray_state = "alloc")
    => /\ call.active => (call.r.dx = FZero /\ call.r.dy = FZero)
       /\ \A k \in written : output_buffer[k] = gray_buf[k] - 128

C4_Witness ==
  /\ fb.width = target_size /\ fb.height = target_size /\ target_size >= 2
  /\ pc = "resize" /\ gray_state = "alloc"
  /\ written = 0..(target_size * target_size - 1)
  /\ \E k \in written : gray_buf[k] # gray_buf[0]

\* C5: bilinear_interpolate called at the bottom-right corner (width-1,
\* height-1) reads only indices inside the image, has x2 <= width-1 and
\* y2 <= height-1, and returns exactly the corner pixel.
AtCorner ==
  /\ pc = "interp_done"
  /\ call.ax = FromInt(fb.width - 1)
  /\ call.ay = FromInt(fb.height - 1)

C5_EdgeClamp ==
  AtCorner
    => /\ \A k \in 1..4 : call.r.reads[k] \in 0..(fb.width * fb.height - 1)
       /\ call.r.x2 <= fb.width - 1
       /\ call.r.y2 <= fb.height - 1
       /\ call.r.pixel = gray_buf[(fb.height - 1) * fb.width + (fb.width - 1)]

C5_Witness ==
  /\ AtCorner /\ fb.width >= 2 /\ fb.height >= 2
  /\ call.r.pixel = gray_buf[fb.width * fb.height - 1]
  /\ gray_buf[fb.width * fb.height - 1] # gray_buf[0]

\* the resize loop has stored every sample and gray_buf is still allocated
ResizeLoopEnded == pc = "resize" /\ ~(y < target_size) /\ gray_state = "alloc"

ScenarioHolds ==
  /\ fb.width = 160 /\ fb.height = 120 /\ target_size = 2
  /\ \A k \in {0, 1} : gray_buf[k] = ScenarioBlock[k + 1]
  /\ \A k \in {160, 161} : gray_buf[k] = ScenarioBlock[k - 157]

\* C6 as stated: a 160x120 source whose top-left 2x2 luma block is
\* [10, 20; 30, 40], resized with target_size = 2, gives the tensor
\* [-118, -108; -98, -88].
C6_ScenarioTopLeftBlock ==
  (ResizeLoopEnded /\ ScenarioHolds)
    => /\ output_buffer[0] = -118
       /\ output_buffer[1] = -108
       /\ output_buffer[2] = -98
       /\ output_buffer[3] = -88

\* C6 amended: for that source and target_size = 2 the four output samples are
\* the grayscale samples at (0,0), (80,0), (0,60) and (80,60), each minus 128;
\* only output[0] = -118 follows from the top-left block.
C6_ScenarioSampledPixels ==
  (ResizeLoopEnded /\ ScenarioHolds)
    => /\ output_buffer[0] = gray_buf[0] - 128
       /\ output_buffer[0] = -118
       /\ output_buffer[1] = gray_buf[80] - 128
       /\ output_buffer[2] = gray_buf[60 * 160] - 128
       /\ output_buffer[3] = gray_buf[60 * 160 + 80] - 128

C6_Witness ==
  /\ ResizeLoopEnded /\ ScenarioHolds
  /\ written = 0..3
  /\ output_buffer[1] = gray_buf[80] - 128
  /\ output_buffer[1] # -108

\* C7: the stored output sample is the interpolated sample minus 128 as a
\* mathematical integer, so it lies in -128 .. 127 (0 gives -128, 255 gives 127).
C7_QuantizeOffset ==
  (call.active /\ call.idx \in DOMAIN output_buffer)
    => /\ call.r.pixel \in 0..255
       /\ output_buffer[call.idx] = call.r.pixel - 128
       /\ output_buffer[call.idx] \in (-128)..127

C7_Witness ==
  /\ call.active /\ call.r.pixel = 255 /\ output_buffer[call.idx] = 127

\* C8: a pixel with R = G = B = v is reduced to a luma sample g with
\* v - 1 <= g <= v and g <= 255.
C8_GrayLuma ==
  \A k \in 0..(i - 1) :
    (pc = "gray_loop" /\ rgb888_buf[3 * k] = rgb888_buf[3 * k + 1]
                      /\ rgb888_buf[3 * k] = rgb888_buf[3 * k + 2])
      => /\ gray_buf[k] >= rgb888_buf[3 * k] - 1
         /\ gray_buf[k] <= rgb888_buf[3 * k]
         /\ gray_buf[k] <= 255

C8_Witness ==
  /\ pc = "gray_loop" /\ i = 1
  /\ rgb888_buf[0] = 253 /\ rgb888_buf[1] = 253 /\ rgb888_buf[2] = 253
  /\ gray_buf[0] = 252

\* the buffer operations of a successful call, in order; a loop that runs no
\* iteration reads nothing
SuccessOrder ==
  <<"alloc_rgb", "decode", "alloc_gray">>
    \o (IF fb.width * fb.height > 0 THEN <<"read_rgb">> ELSE <<>>)
    \o <<"free_rgb">>
    \o (IF target_size > 0 THEN <<"read_gray">> ELSE <<>>)
    \o <<"free_gray">>

\* C9: no intermediate buffer is accessed after it is freed, none is freed
\* twice, and a successful call allocates RGB, decodes, allocates gray, reads
\* RGB, frees RGB, reads gray, frees gray in this order, each buffer freed
\* exactly once.
C9_BufferLifetime ==
  /\ ~uaf
  /\ rgb_frees <= 1 /\ gray_frees <= 1
  /\ rgb888_state = "freed" <=> rgb_frees = 1
  /\ gray_state = "freed" <=> gray_frees = 1
  /\ ret = "true" => /\ rgb_frees = 1 /\ gray_frees = 1
                     /\ events = SuccessOrder

C9_Witness ==
  /\ ret = "true" /\ rgb_frees = 1 /\ gray_frees = 1
  /\ events = <<"alloc_rgb", "decode", "alloc_gray", "read_rgb", "free_rgb",
                "read_gray", "free_gray">>

\* C10: for width, height, target_size >= 1 every bilinear_interpolate call
\* of the resize loop has 0 <= x1 <= x2 <= width-1 and 0 <= y1 <= y2 <=
\* height-1, and its four reads index gray_buf inside 0 .. width*height-1.
C10_ResizeReadsInBounds ==
  (call.active /\ fb.width >= 1 /\ fb.height >= 1)
    => /\ 0 <= call.r.x1 /\ call.r.x1 <= call.r.x2 /\ call.r.x2 <= fb.width - 1
       /\ 0 <= call.r.y1 /\ call.r.y1 <= call.r.y2 /\ call.r.y2 <= fb.height - 1
       /\ \A k \in 1..4 : call.r.reads[k] \in 0..(fb.width * fb.height - 1)

\* an upscaling call on a non-square source that reaches the last column and row
C10_Witness ==
  /\ call.active /\ pc = "resize"
  /\ fb.width >= 2 /\ fb.height > fb.width /\ target_size > fb.height
  /\ call.r.x1 = fb.width - 1 /\ call.r.x2 = fb.width - 1
  /\ call.r.y1 = fb.height - 1 /\ call.r.y2 = fb.height - 1
  /\ call.r.dx # FZero

=============================================================================
